---- MODULE Spec2Model ----
(***************************************************************************)
(* A model of nrrd_preview.py: the palette selector get_distinct_colors,   *)
(* the slice colorizer colorize_slice, the layout renderer render_slices   *)
(* and the command-line entry point main.                                  *)
(*                                                                         *)
(* Colors are RGBA tuples.  matplotlib returns each channel as a float     *)
(* c/255 with alpha 1.0; the model keeps the 8-bit numerators, so that     *)
(* <<31,119,180,255>> stands for (31/255, 119/255, 180/255, 1.0).          *)
(***************************************************************************)
EXTENDS Integers, Sequences, FiniteSets, TLC

VARIABLES
    pc,             \* position of the run inside main / render_slices
    input_exists,   \* environment: input_path.exists()
    load_ok,        \* environment: nrrd.read succeeds
    save_ok,        \* environment: plt.savefig succeeds
    file_volume,    \* environment: the volume stored in the input file
    data,           \* the loaded volume, NoData before the load
    stdout,         \* lines printed to standard output, by kind
    stderr,         \* lines printed to the error stream, by kind
    exit_status,    \* NoExit while running, else <<the process exit status>>
    calls,          \* the functions main has called, in order
    output_file,    \* TRUE once savefig has written output_path
    open_figures,   \* pyplot's open figure numbers
    rs,             \* the locals of the render_slices call
    fn              \* a direct call of a function: arguments and result

mainVars == <<pc, input_exists, load_ok, save_ok, file_volume, data, stdout,
              stderr, exit_status, calls, output_file, open_figures, rs>>
vars == <<pc, input_exists, load_ok, save_ok, file_volume, data, stdout,
          stderr, exit_status, calls, output_file, open_figures, rs, fn>>

----------------------------------------------------------------------------
(* Bounds of the model. *)

\* Largest axis length of an input volume.
MaxDim == 3
\* Input volumes hold the values (linear index % m) * stride for m in 1..MaxMod.
MaxMod == 27
\* Largest n of a direct get_distinct_colors call, and largest k of a full slice.
MaxN == 37
\* Largest number of pixels of a directly colorized slice.
MaxCells == 4
\* Largest pixel value of a directly colorized slice.
MaxPix == 2

----------------------------------------------------------------------------
(* Generic helpers. *)

Min(a, b) == IF a < b THEN a ELSE b

SetMin(S) == CHOOSE x \in S : \A y \in S : x <= y

SetMax(S) == CHOOSE x \in S : \A y \in S : x >= y

\* Ascending sequence of the elements of a finite set of integers.
RECURSIVE SortedSeq(_)
SortedSeq(S) ==
    IF S = {} THEN <<>>
    ELSE LET m == SetMin(S) IN <<m>> \o SortedSeq(S \ {m})

Range(s) == {s[i] : i \in DOMAIN s}

----------------------------------------------------------------------------
(* matplotlib's categorical palettes, as 8-bit RGBA. *)

tab10 == <<
    <<31,119,180,255>>,  <<255,127,14,255>>,  <<44,160,44,255>>,
    <<214,39,40,255>>,   <<148,103,189,255>>, <<140,86,75,255>>,
    <<227,119,194,255>>, <<127,127,127,255>>, <<188,189,34,255>>,
    <<23,190,207,255>> >>

tab20 == <<
    <<31,119,180,255>>,  <<174,199,232,255>>, <<255,127,14,255>>,
    <<255,187,120,255>>, <<44,160,44,255>>,   <<152,223,138,255>>,
    <<214,39,40,255>>,   <<255,152,150,255>>, <<148,103,189,255>>,
    <<197,176,213,255>>, <<140,86,75,255>>,   <<196,156,148,255>>,
    <<227,119,194,255>>, <<247,182,210,255>>, <<127,127,127,255>>,
    <<199,199,199,255>>, <<188,189,34,255>>,  <<219,219,141,255>>,
    <<23,190,207,255>>,  <<158,218,229,255>> >>

Set3 == <<
    <<141,211,199,255>>, <<255,255,179,255>>, <<190,186,218,255>>,
    <<251,128,114,255>>, <<128,177,211,255>>, <<253,180,98,255>>,
    <<179,222,105,255>>, <<252,205,229,255>>, <<217,217,217,255>>,
    <<188,128,189,255>>, <<204,235,197,255>>, <<255,237,111,255>> >>

\* np.zeros((..., 4)): a fully transparent pixel.
Transparent == <<0, 0, 0, 0>>

\* cmap(i) for a ListedColormap and an integer i >= 0: an index above N-1
\* selects the "over" color, which is the last color of the table.
CmapCall(cmap, i) ==
    cmap[(IF i > Len(cmap) - 1 THEN Len(cmap) - 1 ELSE i) + 1]

\* get_distinct_colors that takes the whole 20-color palette whenever n > 10.
get_distinct_colors_whole_tab20(n) ==
    IF n <= 10
    THEN [i \in 1..n |-> CmapCall(tab10, i - 1)]
    ELSE LET colors == [i \in 1..20 |-> CmapCall(tab20, i - 1)]
         IN  IF n > 20
             THEN colors \o [i \in 1..(n - 20) |-> CmapCall(Set3, i - 1)]
             ELSE colors

\* get_distinct_colors that never leaves the 10-color palette.
get_distinct_colors_tab10_only(n) == [i \in 1..n |-> CmapCall(tab10, i - 1)]

\* get_distinct_colors(n)
get_distinct_colors(n) ==
    IF n <= 10
    THEN [i \in 1..n |-> CmapCall(tab10, i - 1)]
    ELSE LET colors == [i \in 1..Min(n, 20) |-> CmapCall(tab20, i - 1)]
         IN  IF n > 20
             THEN colors \o [i \in 1..(n - 20) |-> CmapCall(Set3, i - 1)]
             ELSE colors

----------------------------------------------------------------------------
(* Arrays.  A volume is [shape |-> <<Z,Y,X>>, vox |-> voxel by <<z,y,x>>]; *)
(* a 2-D array is [h |-> rows, w |-> columns, px |-> element by <<r,c>>].  *)

VolIndex(Z, Y, X) == (0..(Z - 1)) \X (0..(Y - 1)) \X (0..(X - 1))

\* The input volumes: voxel values (linear index % m) * stride.
MakeVolume(Z, Y, X, m, stride) ==
    [shape |-> <<Z, Y, X>>,
     vox   |-> [p \in VolIndex(Z, Y, X) |->
                   (((p[1] * Y * X) + (p[2] * X) + p[3]) % m) * stride]]

\* data[z, :, :]
AxialSlice(vol, z) ==
    [h |-> vol.shape[2], w |-> vol.shape[3],
     px |-> [p \in (0..(vol.shape[2] - 1)) \X (0..(vol.shape[3] - 1)) |->
                vol.vox[<<z, p[1], p[2]>>]]]

\* data[:, y, :]
CoronalSlice(vol, y) ==
    [h |-> vol.shape[1], w |-> vol.shape[3],
     px |-> [p \in (0..(vol.shape[1] - 1)) \X (0..(vol.shape[3] - 1)) |->
                vol.vox[<<p[1], y, p[2]>>]]]

\* data[:, :, x]
SagittalSlice(vol, x) ==
    [h |-> vol.shape[1], w |-> vol.shape[2],
     px |-> [p \in (0..(vol.shape[1] - 1)) \X (0..(vol.shape[2] - 1)) |->
                vol.vox[<<p[1], p[2], x>>]]]

\* numpy raises IndexError for an index i that is not below the axis length.
IndexInBounds(vol, axis, i) == i >= 0 /\ i < vol.shape[axis]

\* np.unique(data) without the background: the ascending non-zero values.
UniqueLabels(vol) ==
    SortedSeq({vol.vox[p] : p \in DOMAIN vol.vox} \ {0})

\* {label: colors[i] for i, label in enumerate(unique_labels)}, in insertion
\* order.
LabelToColor(unique_labels, colors) ==
    [i \in 1..Len(unique_labels) |->
        [label |-> unique_labels[i], color |-> colors[i]]]

\* The loop of colorize_slice from item i on: rgba[slice_2d == label] = color.
RECURSIVE PaintFrom(_, _, _, _)
PaintFrom(rgba, slice_2d, label_to_color, i) ==
    IF i > Len(label_to_color) THEN rgba
    ELSE PaintFrom([p \in DOMAIN rgba |->
                       IF slice_2d.px[p] = label_to_color[i].label
                       THEN label_to_color[i].color
                       ELSE rgba[p]],
                   slice_2d, label_to_color, i + 1)

\* colorize_slice whose loop misses the first item of the map.
colorize_slice_skip_first(slice_2d, label_to_color) ==
    [h |-> slice_2d.h, w |-> slice_2d.w,
     px |-> PaintFrom([p \in DOMAIN slice_2d.px |-> Transparent],
                      slice_2d, label_to_color, 2)]

\* colorize_slice(slice_2d), with the label_to_color of the enclosing call.
colorize_slice(slice_2d, label_to_color) ==
    [h |-> slice_2d.h, w |-> slice_2d.w,
     px |-> PaintFrom([p \in DOMAIN slice_2d.px |-> Transparent],
                      slice_2d, label_to_color, 1)]

\* The axial positions with the last one rounded up instead of down.
SlicePositions_round_up(shape) ==
    <<shape[1] \div 4, shape[1] \div 2, ((3 * shape[1]) + 3) \div 4>>

\* [shape[0] // 4, shape[0] // 2, 3 * shape[0] // 4]
SlicePositions(shape) ==
    <<shape[1] \div 4, shape[1] \div 2, (3 * shape[1]) \div 4>>

\* [s // 2 for s in data.shape]
MidIndices(shape) == [a \in 1..3 |-> shape[a] \div 2]

\* The legend cut after 15 patches instead of 14.
LegendPatches_cut_15(label_to_color) ==
    LET patches == [i \in 1..Len(label_to_color) |->
                      [kind  |-> "label",
                       value |-> label_to_color[i].label,
                       color |-> label_to_color[i].color]]
    IN  IF Len(patches) > 15
        THEN SubSeq(patches, 1, 15) \o
             <<[kind |-> "more", value |-> Len(patches) - 15, color |-> "gray"]>>
        ELSE patches

\* The legend handles: one patch per label, cut to 14 patches and a gray
\* "... +N more" patch when there are more than 15.
LegendPatches(label_to_color) ==
    LET patches == [i \in 1..Len(label_to_color) |->
                      [kind  |-> "label",
                       value |-> label_to_color[i].label,
                       color |-> label_to_color[i].color]]
    IN  IF Len(patches) > 15
        THEN SubSeq(patches, 1, 14) \o
             <<[kind |-> "more", value |-> Len(patches) - 14, color |-> "gray"]>>
        ELSE patches

----------------------------------------------------------------------------
(* The run of main. *)

NoData == [shape |-> <<>>, vox |-> <<>>]

NoExit == <<>>

\* The locals of render_slices before the call.
RsInit ==
    [branch          |-> "none",
     unique_labels   |-> <<>>,
     label_to_color  |-> <<>>,
     slice_positions |-> <<>>,
     mid             |-> <<>>,
     panels          |-> <<>>,   \* the images shown, by panel
     skipped         |-> {},     \* axial panels whose guard was false
     patches         |-> <<>>,
     figure          |-> 0,      \* the figure number this call created
     saved           |-> FALSE,
     returned        |-> FALSE]

\* No direct function call.
FnIdle == [op |-> "none"]

\* The input volumes of the run.
Volumes ==
    {MakeVolume(Z, Y, X, m, stride) :
        <<Z, Y, X, m, stride>> \in
            (0..MaxDim) \X (0..MaxDim) \X (0..MaxDim) \X (1..MaxMod) \X {1, 3}}

Init ==
    /\ pc = "start"
    /\ input_exists \in BOOLEAN
    /\ load_ok \in BOOLEAN
    /\ save_ok \in BOOLEAN
    /\ file_volume \in Volumes
    /\ data = NoData
    /\ stdout = <<>>
    /\ stderr = <<>>
    /\ exit_status = NoExit
    /\ calls = <<>>
    /\ output_file = FALSE
    /\ open_figures = {}
    /\ rs = RsInit
    /\ fn = FnIdle

envVars == <<input_exists, load_ok, save_ok, file_volume>>

\* An exception that a blanket handler in main swallows: the run goes on.
Uncaught_swallowed(kind) ==
    /\ pc' = "main_saved"
    /\ stderr' = Append(stderr, kind)
    /\ exit_status' = exit_status

\* An exception nobody catches: the traceback goes to the error stream and
\* the interpreter exits with status 1.
Uncaught(kind) ==
    /\ pc' = "crashed"
    /\ stderr' = Append(stderr, kind)
    /\ exit_status' = <<1>>

\* plt.subplots: a new figure, which becomes the current one.
NewFigure == IF open_figures = {} THEN 1 ELSE SetMax(open_figures) + 1

\* The existence check without its sys.exit(1).
Main_CheckPath_no_exit ==
    /\ pc = "start"
    /\ IF ~input_exists
       THEN /\ stderr' = Append(stderr, "Error: File not found")
            /\ pc' = "load"
            /\ UNCHANGED exit_status
       ELSE /\ pc' = "load"
            /\ UNCHANGED <<stderr, exit_status>>
    /\ UNCHANGED <<envVars, data, stdout, calls, output_file, open_figures,
                   rs, fn>>

\* main, lines 142-147: the existence check.
Main_CheckPath ==
    /\ pc = "start"
    /\ IF ~input_exists
       THEN /\ stderr' = Append(stderr, "Error: File not found")
            /\ exit_status' = <<1>>
            /\ pc' = "exited"
       ELSE /\ pc' = "load"
            /\ UNCHANGED <<stderr, exit_status>>
    /\ UNCHANGED <<envVars, data, stdout, calls, output_file, open_figures,
                   rs, fn>>

\* The load step without the shape line.
Main_Load_no_shape_line ==
    /\ pc = "load"
    /\ calls' = Append(calls, "load_nrrd")
    /\ IF load_ok
       THEN /\ data' = file_volume
            /\ stdout' = Append(stdout, "Loading")
            /\ pc' = "render"
            /\ UNCHANGED <<stderr, exit_status>>
       ELSE /\ stdout' = Append(stdout, "Loading")
            /\ Uncaught("nrrd.NRRDError")
            /\ UNCHANGED data
    /\ UNCHANGED <<envVars, output_file, open_figures, rs, fn>>

\* main, lines 149-151: print, load_nrrd, print.
Main_Load ==
    /\ pc = "load"
    /\ calls' = Append(calls, "load_nrrd")
    /\ IF load_ok
       THEN /\ data' = file_volume
            /\ stdout' = stdout \o <<"Loading", "Shape">>
            /\ pc' = "render"
            /\ UNCHANGED <<stderr, exit_status>>
       ELSE /\ stdout' = Append(stdout, "Loading")
            /\ Uncaught("nrrd.NRRDError")
            /\ UNCHANGED data
    /\ UNCHANGED <<envVars, output_file, open_figures, rs, fn>>

\* main, lines 153-154: print, then the call of render_slices.
Main_Render ==
    /\ pc = "render"
    /\ stdout' = Append(stdout, "Rendering")
    /\ calls' = Append(calls, "render_slices")
    /\ pc' = "rs_unique"
    /\ UNCHANGED <<envVars, data, stderr, exit_status, output_file,
                   open_figures, rs, fn>>

\* render_slices, lines 47-50: the labels and the choice of the branch.
RS_Unique ==
    /\ pc = "rs_unique"
    /\ LET unique_labels == UniqueLabels(data)
       IN  /\ rs' = [rs EXCEPT !.unique_labels = unique_labels,
                               !.branch = IF Len(unique_labels) = 0
                                          THEN "empty" ELSE "labeled"]
           /\ pc' = IF Len(unique_labels) = 0 THEN "rs_empty_fig"
                    ELSE "rs_colors"
    /\ UNCHANGED <<envVars, data, stdout, stderr, exit_status, calls,
                   output_file, open_figures, fn>>

\* render_slices, lines 52-53: the 1x3 figure and the middle indices.
RS_EmptyFigure ==
    /\ pc = "rs_empty_fig"
    /\ open_figures' = open_figures \cup {NewFigure}
    /\ rs' = [rs EXCEPT !.figure = NewFigure, !.mid = MidIndices(data.shape)]
    /\ pc' = "rs_empty_show"
    /\ UNCHANGED <<envVars, data, stdout, stderr, exit_status, calls,
                   output_file, fn>>

\* render_slices, lines 55-63: the three grayscale panels, in order; the
\* first index that is out of bounds raises IndexError.
RS_EmptyShow ==
    /\ pc = "rs_empty_show"
    /\ IF \A a \in 1..3 : IndexInBounds(data, a, rs.mid[a])
       THEN /\ rs' = [rs EXCEPT !.panels =
                        [panel \in {"axial", "coronal", "sagittal"} |->
                           CASE panel = "axial" ->
                                    AxialSlice(data, rs.mid[1])
                             [] panel = "coronal" ->
                                    CoronalSlice(data, rs.mid[2])
                             [] panel = "sagittal" ->
                                    SagittalSlice(data, rs.mid[3])]]
            /\ pc' = "rs_empty_save"
            /\ UNCHANGED <<stderr, exit_status>>
       ELSE /\ Uncaught("IndexError")
            /\ UNCHANGED rs
    /\ UNCHANGED <<envVars, data, stdout, calls, output_file, open_figures,
                   fn>>

\* render_slices, lines 65-66: tight_layout and savefig.
RS_EmptySave ==
    /\ pc = "rs_empty_save"
    /\ IF save_ok
       THEN /\ output_file' = TRUE
            /\ rs' = [rs EXCEPT !.saved = TRUE]
            /\ pc' = "rs_empty_close"
            /\ UNCHANGED <<stderr, exit_status>>
       ELSE /\ Uncaught("OSError")
            /\ UNCHANGED <<output_file, rs>>
    /\ UNCHANGED <<envVars, data, stdout, calls, open_figures, fn>>

\* render_slices, lines 67-68: plt.close() closes the current figure; return.
RS_EmptyClose ==
    /\ pc = "rs_empty_close"
    /\ open_figures' = open_figures \ {SetMax(open_figures)}
    /\ rs' = [rs EXCEPT !.returned = TRUE]
    /\ pc' = "main_saved"
    /\ UNCHANGED <<envVars, data, stdout, stderr, exit_status, calls,
                   output_file, fn>>

\* render_slices, lines 71-87: the color map and the axial positions.
RS_Colors ==
    /\ pc = "rs_colors"
    /\ LET colors == get_distinct_colors(Len(rs.unique_labels))
       IN  rs' = [rs EXCEPT
                    !.label_to_color = LabelToColor(rs.unique_labels, colors),
                    !.slice_positions = SlicePositions(data.shape)]
    /\ pc' = "rs_fig"
    /\ UNCHANGED <<envVars, data, stdout, stderr, exit_status, calls,
                   output_file, open_figures, fn>>

\* render_slices, line 90: the 2x3 figure.
RS_Figure ==
    /\ pc = "rs_fig"
    /\ open_figures' = open_figures \cup {NewFigure}
    /\ rs' = [rs EXCEPT !.figure = NewFigure]
    /\ pc' = "rs_axial"
    /\ UNCHANGED <<envVars, data, stdout, stderr, exit_status, calls,
                   output_file, fn>>

\* render_slices, lines 93-98: the top row; a position that is not below
\* shape[0] leaves its panel empty.
RS_Axial ==
    /\ pc = "rs_axial"
    /\ LET shown == {i \in 1..3 : rs.slice_positions[i] < data.shape[1]}
       IN  rs' = [rs EXCEPT
                    !.panels = [i \in shown |->
                                  colorize_slice(
                                      AxialSlice(data, rs.slice_positions[i]),
                                      rs.label_to_color)],
                    !.skipped = (1..3) \ shown]
    /\ pc' = "rs_bottom"
    /\ UNCHANGED <<envVars, data, stdout, stderr, exit_status, calls,
                   output_file, open_figures, fn>>

\* render_slices, lines 101-112: the coronal and the sagittal panel.
RS_Bottom ==
    /\ pc = "rs_bottom"
    /\ LET mid_y == data.shape[2] \div 2
           mid_x == data.shape[3] \div 2
       IN  IF IndexInBounds(data, 2, mid_y) /\ IndexInBounds(data, 3, mid_x)
           THEN /\ rs' = [rs EXCEPT
                            !.mid = <<mid_y, mid_x>>,
                            !.panels = [i \in DOMAIN rs.panels \cup {4, 5} |->
                               CASE i = 4 -> colorize_slice(
                                                 CoronalSlice(data, mid_y),
                                                 rs.label_to_color)
                                 [] i = 5 -> colorize_slice(
                                                 SagittalSlice(data, mid_x),
                                                 rs.label_to_color)
                                 [] OTHER -> rs.panels[i]]]
                /\ pc' = "rs_legend"
                /\ UNCHANGED <<stderr, exit_status>>
           ELSE /\ Uncaught("IndexError")
                /\ UNCHANGED rs
    /\ UNCHANGED <<envVars, data, stdout, calls, output_file, open_figures,
                   fn>>

\* render_slices, lines 115-128: the legend.
RS_Legend ==
    /\ pc = "rs_legend"
    /\ rs' = [rs EXCEPT !.patches = LegendPatches(rs.label_to_color)]
    /\ pc' = "rs_save"
    /\ UNCHANGED <<envVars, data, stdout, stderr, exit_status, calls,
                   output_file, open_figures, fn>>

\* render_slices, lines 130-131: tight_layout and savefig.
RS_Save ==
    /\ pc = "rs_save"
    /\ IF save_ok
       THEN /\ output_file' = TRUE
            /\ rs' = [rs EXCEPT !.saved = TRUE]
            /\ pc' = "rs_close"
            /\ UNCHANGED <<stderr, exit_status>>
       ELSE /\ Uncaught("OSError")
            /\ UNCHANGED <<output_file, rs>>
    /\ UNCHANGED <<envVars, data, stdout, calls, open_figures, fn>>

\* render_slices, line 132: plt.close() closes the current figure; return.
RS_Close ==
    /\ pc = "rs_close"
    /\ open_figures' = open_figures \ {SetMax(open_figures)}
    /\ rs' = [rs EXCEPT !.returned = TRUE]
    /\ pc' = "main_saved"
    /\ UNCHANGED <<envVars, data, stdout, stderr, exit_status, calls,
                   output_file, fn>>

\* main, line 155, and the normal end of the script.
Main_Saved ==
    /\ pc = "main_saved"
    /\ stdout' = Append(stdout, "Saved")
    /\ exit_status' = <<0>>
    /\ pc' = "done"
    /\ UNCHANGED <<envVars, data, stderr, calls, output_file, open_figures,
                   rs, fn>>

Next ==
    \/ Main_CheckPath
    \/ Main_Load
    \/ Main_Render
    \/ RS_Unique
    \/ RS_EmptyFigure
    \/ RS_EmptyShow
    \/ RS_EmptySave
    \/ RS_EmptyClose
    \/ RS_Colors
    \/ RS_Figure
    \/ RS_Axial
    \/ RS_Bottom
    \/ RS_Legend
    \/ RS_Save
    \/ RS_Close
    \/ Main_Saved

Spec == Init /\ [][Next]_vars

----------------------------------------------------------------------------
(* Direct calls of get_distinct_colors and of colorize_slice, each with    *)
(* arguments drawn from bounded sets.  The label-to-color map of a         *)
(* colorize_slice call is always built the way render_slices builds it,    *)
(* from an ascending sequence of non-zero labels.                          *)

\* The 2-D arrays with at most MaxCells elements, each in 0..MaxPix.
SmallSlices ==
    UNION {
        {[h |-> h, w |-> w, px |-> f] :
            f \in [(0..(h - 1)) \X (0..(w - 1)) -> 0..MaxPix]} :
        <<h, w>> \in {d \in (0..MaxCells) \X (0..MaxCells) :
                        d[1] * d[2] <= MaxCells}}

\* A row holding the background and the labels stride, 2*stride, ...,
\* k*stride, ascending or descending.
FullRow(k, stride, descending) ==
    [h |-> 1, w |-> k + 1,
     px |-> [p \in {0} \X (0..k) |->
                stride * (IF descending THEN k - p[2] ELSE p[2])]]

\* The map render_slices builds for the label set S.
MapFor(S) == LabelToColor(SortedSeq(S), get_distinct_colors(Cardinality(S)))

ColorsCalls ==
    {[op |-> "colors", n |-> n, calls |-> 0, result |-> <<>>,
      previous |-> <<>>] : n \in 0..MaxN}

ColorizeCalls ==
    {[op |-> "colorize", slice_2d |-> s, slice_in |-> s,
      label_to_color |-> MapFor(S), called |-> FALSE, result |-> <<>>] :
        <<s, S>> \in SmallSlices \X ((SUBSET (1..MaxPix)) \ {{}})}
    \cup
    {[op |-> "colorize", slice_2d |-> FullRow(c[1], c[2], c[3]),
      slice_in |-> FullRow(c[1], c[2], c[3]),
      label_to_color |-> MapFor({c[2] * i : i \in 1..c[1]}),
      called |-> FALSE, result |-> <<>>] :
        c \in (1..MaxN) \X {1, 3} \X BOOLEAN}

FnInit ==
    /\ pc = "idle"
    /\ input_exists = FALSE
    /\ load_ok = FALSE
    /\ save_ok = FALSE
    /\ file_volume = NoData
    /\ data = NoData
    /\ stdout = <<>>
    /\ stderr = <<>>
    /\ exit_status = NoExit
    /\ calls = <<>>
    /\ output_file = FALSE
    /\ open_figures = {}
    /\ rs = RsInit
    /\ fn \in ColorsCalls \cup ColorizeCalls

\* get_distinct_colors(n), called up to twice with the same n.
Fn_Colors ==
    /\ fn.op = "colors"
    /\ fn.calls < 2
    /\ fn' = [fn EXCEPT !.calls = @ + 1,
                        !.previous = fn.result,
                        !.result = get_distinct_colors(fn.n)]
    /\ UNCHANGED mainVars

\* colorize_slice(slice_2d)
Fn_Colorize ==
    /\ fn.op = "colorize"
    /\ ~fn.called
    /\ fn' = [fn EXCEPT !.called = TRUE,
                        !.result = colorize_slice(fn.slice_2d,
                                                  fn.label_to_color)]
    /\ UNCHANGED mainVars

FnNext ==
    \/ Fn_Colors
    \/ Fn_Colorize

FnSpec == FnInit /\ [][FnNext]_vars

----------------------------------------------------------------------------
(* Properties. *)

\* The positions at which render_slices is executing.
InRender ==
    pc \in {"rs_unique", "rs_empty_fig", "rs_empty_show", "rs_empty_save",
            "rs_empty_close", "rs_colors", "rs_fig", "rs_axial", "rs_bottom",
            "rs_legend", "rs_save", "rs_close"}

Loaded == data # NoData

\* C1: when the input path does not exist, main reports the error on the
\* error stream and exits with status 1 before any load attempt: neither
\* load_nrrd nor render_slices is called, nothing is printed to standard
\* output and no output file is created.
C1_MissingInputExitsBeforeLoad ==
    (~input_exists /\ pc # "start") =>
        /\ pc = "exited"
        /\ exit_status = <<1>>
        /\ stderr = <<"Error: File not found">>
        /\ stdout = <<>>
        /\ calls = <<>>
        /\ ~Loaded
        /\ ~output_file

C1_Witness ==
    /\ ~input_exists
    /\ pc = "exited"
    /\ exit_status = <<1>>

\* C2, as stated: a successful run has printed exactly the three lines
\* loading, rendering, saved.
C2_ExactlyThreeLines ==
    pc = "done" => stdout = <<"Loading", "Rendering", "Saved">>

\* C2, amended: a successful run has printed exactly four lines, in the
\* order loading, shape and dtype, rendering, saved; the saved line is only
\* ever printed after render_slices has returned, and only a run that
\* printed it exits with status 0.
C2_FourLinesInOrder ==
    /\ pc = "done" => stdout = <<"Loading", "Shape", "Rendering", "Saved">>
    /\ (\E i \in DOMAIN stdout : stdout[i] = "Saved") =>
            (rs.returned /\ rs.saved /\ pc = "done")
    /\ exit_status = <<0>> => pc = "done"

C2_Witness ==
    /\ pc = "done"
    /\ exit_status = <<0>>
    /\ rs.branch = "labeled"
    /\ Len(stdout) = 4

\* C3: for every n >= 0, get_distinct_colors(n) returns a sequence of
\* exactly n RGBA colors, the empty sequence for n = 0, and a second call
\* with the same n returns the same sequence.
C3_ExactlyNColors ==
    (fn.op = "colors" /\ fn.calls >= 1) =>
        /\ DOMAIN fn.result = 1..fn.n
        /\ Len(fn.result) = fn.n
        /\ fn.n = 0 => fn.result = <<>>
        /\ \A i \in 1..Len(fn.result) :
                fn.result[i] \in Range(tab10) \cup Range(tab20) \cup Range(Set3)
        /\ fn.calls = 2 => fn.result = fn.previous

C3_Witness ==
    /\ fn.op = "colors"
    /\ fn.n = 37
    /\ fn.calls = 2
    /\ Len(fn.result) = 37

\* The palette the specification describes: past the 20-color palette the
\* colors cycle through the 12 colors of the secondary palette.
ReferencePalette(n) ==
    IF n <= 10 THEN SubSeq(tab10, 1, n)
    ELSE IF n <= 20 THEN SubSeq(tab20, 1, n)
    ELSE tab20 \o [j \in 1..(n - 20) |-> Set3[((j - 1) % 12) + 1]]

\* C4: for every n >= 0, get_distinct_colors(n) equals the reference
\* palette; in particular the color at position 20+j is secondary[j mod 12].
C4_EqualsReferencePalette ==
    (fn.op = "colors" /\ fn.calls >= 1) => fn.result = ReferencePalette(fn.n)

\* The color the map gives a pixel value, or transparent when it has none.
MappedColor(label_to_color, v) ==
    IF \E i \in DOMAIN label_to_color : label_to_color[i].label = v
    THEN label_to_color[CHOOSE i \in DOMAIN label_to_color :
                            label_to_color[i].label = v].color
    ELSE Transparent

\* C5: colorize_slice returns an image of the height and width of the
\* slice in which each pixel whose label is a key of the map has that key's
\* color and each pixel whose label is 0 or absent from the map is fully
\* transparent; the slice itself is unchanged.
C5_ColorizeMatchesMap ==
    (fn.op = "colorize" /\ fn.called) =>
        /\ fn.result.h = fn.slice_2d.h
        /\ fn.result.w = fn.slice_2d.w
        /\ DOMAIN fn.result.px = DOMAIN fn.slice_2d.px
        /\ \A p \in DOMAIN fn.slice_2d.px :
              /\ fn.result.px[p] = MappedColor(fn.label_to_color,
                                               fn.slice_2d.px[p])
              /\ fn.slice_2d.px[p] = 0 => fn.result.px[p] = Transparent
              /\ (\E i \in DOMAIN fn.label_to_color :
                      fn.label_to_color[i].label = fn.slice_2d.px[p])
                    => fn.result.px[p] # Transparent
        /\ fn.slice_2d = fn.slice_in

\* A colorized 2x2 slice with a background pixel, a mapped pixel and a
\* pixel whose value the map does not have.
C5_Witness ==
    /\ fn.op = "colorize"
    /\ fn.called
    /\ fn.slice_2d.h = 2
    /\ fn.slice_2d.w = 2
    /\ Len(fn.label_to_color) = 1
    /\ fn.label_to_color[1].label = 2
    /\ fn.slice_2d.px[<<0, 0>>] = 0
    /\ fn.slice_2d.px[<<0, 1>>] = 2
    /\ fn.slice_2d.px[<<1, 0>>] = 1
    /\ fn.result.px[<<0, 1>>] = tab10[1]
    /\ fn.result.px[<<1, 0>>] = Transparent

\* The slice holds the background and every label of the map.
FullSlice ==
    /\ \E p \in DOMAIN fn.slice_2d.px : fn.slice_2d.px[p] = 0
    /\ \A i \in DOMAIN fn.label_to_color :
          \E p \in DOMAIN fn.slice_2d.px :
              fn.slice_2d.px[p] = fn.label_to_color[i].label

LegendBuilt ==
    /\ rs.branch = "labeled"
    /\ pc \in {"rs_save", "rs_close", "main_saved", "done"}

\* The patch of the i-th label in ascending order.
LabelPatch(i) ==
    [kind  |-> "label",
     value |-> rs.unique_labels[i],
     color |-> get_distinct_colors(Len(rs.unique_labels))[i]]

\* C7: with k labels the legend has k patches, one per label in ascending
\* order, when k <= 15, and otherwise 15 patches: those of the 14 smallest
\* labels and one summary patch counting the k-14 labels not shown.  It
\* never has more than 15 patches.
C7_LegendPatches ==
    LegendBuilt =>
        LET k == Len(rs.unique_labels)
        IN  /\ Len(rs.patches) <= 15
            /\ k <= 15 =>
                  /\ Len(rs.patches) = k
                  /\ \A i \in 1..k : rs.patches[i] = LabelPatch(i)
            /\ k > 15 =>
                  /\ Len(rs.patches) = 15
                  /\ \A i \in 1..14 : rs.patches[i] = LabelPatch(i)
                  /\ rs.patches[15].kind = "more"
                  /\ rs.patches[15].value = k - 14
            /\ \A i \in 1..(Len(rs.unique_labels) - 1) :
                  rs.unique_labels[i] < rs.unique_labels[i + 1]

\* 25 labels: 14 label patches and "+11 more".
C7_Witness ==
    /\ LegendBuilt
    /\ Len(rs.unique_labels) = 25
    /\ Len(rs.patches) = 15
    /\ rs.patches[14].kind = "label"
    /\ rs.patches[15].kind = "more"
    /\ rs.patches[15].value = 11

\* C8: in the labeled branch the axial indices are Z//4, Z//2 and 3*Z//4,
\* the coronal index Y//2 and the sagittal index X//2; each is a valid
\* index of its axis, so the guard z < shape[0] is never false, no indexing
\* error is raised, and all five panels are colorized and drawn.
C8_LabeledIndicesValid ==
    rs.branch = "labeled" =>
        LET Z == data.shape[1]
            Y == data.shape[2]
            X == data.shape[3]
        IN  /\ stderr # <<"IndexError">>
            /\ rs.slice_positions # <<>> =>
                  /\ rs.slice_positions[1] = Z \div 4
                  /\ rs.slice_positions[2] = Z \div 2
                  /\ rs.slice_positions[3] = (3 * Z) \div 4
                  /\ \A i \in 1..3 : /\ 0 <= rs.slice_positions[i]
                                     /\ rs.slice_positions[i] < Z
            /\ 0 <= Y \div 2 /\ Y \div 2 < Y
            /\ 0 <= X \div 2 /\ X \div 2 < X
            /\ rs.skipped = {}
            /\ pc \in {"rs_bottom", "rs_legend", "rs_save", "rs_close",
                       "main_saved", "done"} =>
                  /\ (1..3) \subseteq DOMAIN rs.panels
                  /\ \A i \in 1..3 : /\ rs.panels[i].h = Y
                                     /\ rs.panels[i].w = X
            /\ pc \in {"rs_legend", "rs_save", "rs_close", "main_saved",
                       "done"} =>
                  /\ DOMAIN rs.panels = 1..5
                  /\ rs.mid = <<Y \div 2, X \div 2>>
                  /\ rs.panels[4].h = Z /\ rs.panels[4].w = X
                  /\ rs.panels[5].h = Z /\ rs.panels[5].w = Y

\* A labeled volume with a first axis of length 1, all five panels drawn.
C8_Witness ==
    /\ rs.branch = "labeled"
    /\ pc = "rs_legend"
    /\ data.shape[1] = 1
    /\ DOMAIN rs.panels = 1..5
    /\ rs.slice_positions = <<0, 0, 0>>

ZeroAxes == {a \in 1..3 : data.shape[a] = 0}

\* C9: for a volume with an axis of length 0, render_slices computes the
\* index 0 for that axis and fails with an indexing error before any save;
\* nothing catches the error, so the run ends with a non-zero status, the
\* saved line is never printed and no output file is written.
C9_DegenerateVolumeFails ==
    (Loaded /\ ZeroAxes # {}) =>
        /\ pc \in {"render", "rs_unique", "rs_empty_fig", "rs_empty_show",
                   "crashed"}
        /\ rs.branch # "labeled"
        /\ rs.mid # <<>> => \A a \in ZeroAxes : rs.mid[a] = 0
        /\ pc = "crashed" =>
              /\ stderr = <<"IndexError">>
              /\ exit_status = <<1>>
              /\ calls = <<"load_nrrd", "render_slices">>
              /\ ~rs.returned
        /\ exit_status # <<0>>
        /\ ~rs.saved
        /\ ~output_file
        /\ \A i \in DOMAIN stdout : stdout[i] # "Saved"

C9_Witness ==
    /\ Loaded
    /\ data.shape = <<2, 0, 2>>
    /\ pc = "crashed"
    /\ stderr = <<"IndexError">>
    /\ rs.mid = <<1, 0, 1>>

\* C10: once a call of render_slices is over, the figure it created is no
\* longer open.
C10_NoFigureLeftOpen ==
    (rs.figure # 0 /\ ~InRender) => rs.figure \notin open_figures

====
